---- MODULE Spec2Model ----
(***************************************************************************)
(* bosdyn/client/server_util.py: ResponseContext, populate_response_header *)
(* and the large-bytes strippers, as a state machine.                      *)
(*                                                                         *)
(* Protobuf messages are mutable objects, so they live in a heap: a        *)
(* sequence of nodes, an address being an index (0 = field not set).  A    *)
(* node carries the fields the strippers and the header code read or       *)
(* write: the request header (root of a request only), the bytes field     *)
(* "data", the remaining scalar fields ("meta"), one singular sub-message  *)
(* ("child") and one repeated sub-message field ("items").  Strings are    *)
(* sequences of tokens, bytes are sequences of "b".                        *)
(***************************************************************************)
EXTENDS Integers, Sequences, FiniteSets, TLC

VARIABLES heap, request, response, header, now, pc, ctx, sink, cb_calls, exc,
          entry_error, last

\* strip_large_bytes_fields called on its own: its argument, and the
\* argument's value before the first call
VARIABLES proto_message, original

\* GrpcServiceRunner: the grpc server's stage, the handlers of the calls it
\* took, the server-level shutdown actions so far, the thread that owns the
\* runner (position, who called stop, fault pending from a with body), the
\* number of stop() calls, the SIGINT flag and the time spent inside stop()
VARIABLES stage, rpcs, server_log, main, frame, stop_calls, interrupted, waited

stripVars == <<proto_message, original>>
runnerVars == <<stage, rpcs, server_log, main, frame, stop_calls, interrupted, waited>>
scopeVars == <<heap, request, response, header, now, pc, ctx, sink, cb_calls, exc,
               entry_error, last>>

vars == <<heap, request, response, header, now, pc, ctx, sink, cb_calls, exc,
          entry_error, last, proto_message, original,
          stage, rpcs, server_log, main, frame, stop_calls, interrupted, waited>>

\* ------------------------------------------------------------------ bounds
MaxItems == 2
MaxBytes == 1
MaxTime == 2
MaxCalls == 2
MaxStops == 2

\* GrpcServiceRunner.__init__: timeout_secs=3
timeout_secs == 3

\* ------------------------------------------------------- message universe
GetImageResponse == "GetImageResponse"
GetLocalGridsResponse == "GetLocalGridsResponse"
StoreDataRequest == "StoreDataRequest"
StoreImageRequest == "StoreImageRequest"
RecordSignalTicksRequest == "RecordSignalTicksRequest"
RecordDataBlobsRequest == "RecordDataBlobsRequest"
AddLogAnnotationRequest == "AddLogAnnotationRequest"
\* two message types the allowlist does not name
GetImageRequest == "GetImageRequest"
RobotCommandResponse == "RobotCommandResponse"

CODE_UNSPECIFIED == "CODE_UNSPECIFIED"
CODE_OK == "CODE_OK"
CODE_INTERNAL_SERVER_ERROR == "CODE_INTERNAL_SERVER_ERROR"
CODE_INVALID_REQUEST == "CODE_INVALID_REQUEST"
Codes == {CODE_UNSPECIFIED, CODE_OK, CODE_INTERNAL_SERVER_ERROR, CODE_INVALID_REQUEST}

NoBytes == <<>>
BytesValues == {[i \in 1..n |-> "b"] : n \in 0..MaxBytes}
RequestHeaders == {"client-a", "client-b"}

\* A message as a value (what SerializeToString carries): the same fields as
\* a heap node, sub-messages inlined, an unset sub-message as <<>>.
Value(t, h, d, m, c, its) ==
    [type |-> t, header |-> h, data |-> d, meta |-> m, child |-> c, items |-> its]

Leaf(t, d, m) == Value(t, "", d, m, <<>>, <<>>)
Wrap(t, v) == Value(t, "", NoBytes, "", <<v>>, <<>>)

SeqsOfLen(S, ns) == UNION {[1..k -> S] : k \in ns}

\* image_pb2.Image: data plus format/rows/cols
Images(B) == {Leaf("Image", d, "jpeg") : d \in B}
ImageCaptures(B) == {Wrap("ImageCapture", i) : i \in Images(B)}
ImageResponses(B) == {Wrap("ImageResponse", s) : s \in ImageCaptures(B)}
LocalGridResponses(B) ==
    {Wrap("LocalGridResponse", Leaf("LocalGrid", d, "extent")) : d \in B}
SignalTicks(B) == {Leaf("SignalTick", d, "tick") : d \in B}
DataBlobs(B) == {Leaf("DataBlob", d, "blob") : d \in B}
LogBlobs(B) == {Leaf("LogAnnotationLogBlob", d, "log") : d \in B}

\* The messages of type t with header in hdrs, bytes fields in B, and ns the
\* lengths of the repeated field (0 \in ns also leaves a singular
\* sub-message unset).
MessagesOfType(t, hdrs, B, ns) ==
    CASE t = GetImageResponse ->
           {Value(t, h, NoBytes, "", <<>>, its) :
               h \in hdrs, its \in SeqsOfLen(ImageResponses(B), ns)}
      [] t = GetLocalGridsResponse ->
           {Value(t, h, NoBytes, "", <<>>, its) :
               h \in hdrs, its \in SeqsOfLen(LocalGridResponses(B), ns)}
      [] t = StoreDataRequest ->
           {Value(t, h, d, "action-id", <<>>, <<>>) : h \in hdrs, d \in B}
      [] t = StoreImageRequest ->
           {Value(t, h, NoBytes, "", c, <<>>) :
               h \in hdrs,
               c \in (IF 0 \in ns THEN {<<>>} ELSE {}) \cup {<<i>> : i \in ImageCaptures(B)}}
      [] t = RecordSignalTicksRequest ->
           {Value(t, h, NoBytes, "", <<>>, its) :
               h \in hdrs, its \in SeqsOfLen(SignalTicks(B), ns)}
      [] t = RecordDataBlobsRequest ->
           {Value(t, h, NoBytes, "", <<>>, its) :
               h \in hdrs, its \in SeqsOfLen(DataBlobs(B), ns)}
      [] t = AddLogAnnotationRequest ->
           {Value(t, h, NoBytes, "", <<Value("LogAnnotations", "", NoBytes, "", <<>>, its)>>, <<>>) :
               h \in hdrs, its \in SeqsOfLen(LogBlobs(B), ns)}
      [] OTHER ->
           \* not allowlisted: bytes at the top level and in a sub-message
           {Value(t, h, d, "other", <<Leaf("Image", d, "jpeg")>>, <<>>) :
               h \in hdrs, d \in B}

RequestTypes == {StoreDataRequest, StoreImageRequest, RecordSignalTicksRequest,
                 RecordDataBlobsRequest, AddLogAnnotationRequest, GetImageRequest}
ResponseTypes == {GetImageResponse, GetLocalGridsResponse, RobotCommandResponse}

\* ------------------------------------------------------------------- heap
RECURSIVE Serialize(_, _)
Serialize(h, a) ==
    [type |-> h[a].type, header |-> h[a].header, data |-> h[a].data,
     meta |-> h[a].meta,
     child |-> IF h[a].child = 0 THEN <<>> ELSE <<Serialize(h, h[a].child)>>,
     items |-> [i \in 1..Len(h[a].items) |-> Serialize(h, h[a].items[i])]]

\* ParseFromString into fresh objects: [h |-> the grown heap, a |-> the root]
RECURSIVE Parse(_, _)
RECURSIVE ParseItems(_, _, _)
ParseItems(h, vs, i) ==
    IF i > Len(vs) THEN [h |-> h, as |-> <<>>]
    ELSE LET one == Parse(h, vs[i])
             rest == ParseItems(one.h, vs, i + 1)
         IN [h |-> rest.h, as |-> <<one.a>> \o rest.as]
Parse(h, v) ==
    LET c == IF v.child = <<>> THEN [h |-> h, a |-> 0] ELSE Parse(h, v.child[1])
        its == ParseItems(c.h, v.items, 1)
        node == [type |-> v.type, header |-> v.header, data |-> v.data,
                 meta |-> v.meta, child |-> c.a, items |-> its.as]
    IN [h |-> Append(its.h, node), a |-> Len(its.h) + 1]

\* copy.copy of a protobuf message goes through __reduce__: a new object of
\* the same type whose state is the serialized message, parsed again.  No
\* sub-message object is shared with the original.
ShallowCopy(h, a) == [h |-> Append(h, h[a]), a |-> Len(h) + 1]
copy_copy(h, a) == Parse(h, Serialize(h, a))

ClearAll(h, a) ==
    IF a = 0 THEN h ELSE [h EXCEPT ![a].data = NoBytes, ![a].meta = ""]
\* ClearField("data") of the object at a; an unset sub-message (a = 0) reads
\* as a detached default instance, and clearing it changes nothing.
ClearData(h, a) == IF a = 0 THEN h ELSE [h EXCEPT ![a].data = NoBytes]
Field(h, a) == IF a = 0 THEN 0 ELSE h[a].child

\* --------------------------------------------------------------- strippers
strip_image_response(h, a) == ClearData(h, Field(h, Field(h, a)))

RECURSIVE strip_get_image_response_from(_, _, _)
strip_get_image_response_from(h, a, i) ==
    IF i > Len(h[a].items) THEN h
    ELSE strip_get_image_response_from(strip_image_response(h, h[a].items[i]), a, i + 1)
strip_get_image_response_skip_first(h, a) == strip_get_image_response_from(h, a, 2)
strip_get_image_response(h, a) == strip_get_image_response_from(h, a, 1)

RECURSIVE strip_local_grid_responses_from(_, _, _)
strip_local_grid_responses_from(h, a, i) ==
    IF i > Len(h[a].items) THEN h
    ELSE strip_local_grid_responses_from(ClearData(h, Field(h, h[a].items[i])), a, i + 1)
strip_local_grid_responses(h, a) == strip_local_grid_responses_from(h, a, 1)

strip_store_image_request(h, a) == ClearData(h, Field(h, Field(h, a)))

strip_store_data_request(h, a) == ClearData(h, a)

strip_first_tick_only(h, a) ==
    IF h[a].items = <<>> THEN h ELSE ClearData(h, h[a].items[1])
RECURSIVE strip_record_signal_tick_from(_, _, _)
strip_record_signal_tick_from(h, a, i) ==
    IF i > Len(h[a].items) THEN h
    ELSE strip_record_signal_tick_from(ClearData(h, h[a].items[i]), a, i + 1)
strip_record_signal_tick(h, a) == strip_record_signal_tick_from(h, a, 1)

\* leaves the loop after the first blob that had bytes to clear
strip_record_data_blob_break(h, a) ==
    LET full == {i \in DOMAIN h[a].items : h[h[a].items[i]].data /= NoBytes}
    IN IF full = {} THEN h
       ELSE ClearData(h, h[a].items[CHOOSE i \in full : \A j \in full : i <= j])
RECURSIVE strip_record_data_blob_from(_, _, _)
strip_record_data_blob_from(h, a, i) ==
    IF i > Len(h[a].items) THEN h
    ELSE strip_record_data_blob_from(ClearData(h, h[a].items[i]), a, i + 1)
strip_record_data_blob(h, a) == strip_record_data_blob_from(h, a, 1)

RECURSIVE strip_log_annotation_from(_, _, _)
strip_log_annotation_from(h, a, i) ==
    IF a = 0 \/ i > Len(h[a].items) THEN h
    ELSE strip_log_annotation_from(ClearData(h, h[a].items[i]), a, i + 1)
strip_log_annotation(h, a) == strip_log_annotation_from(h, Field(h, a), 1)

get_bytes_field_allowlist ==
    {GetImageResponse, GetLocalGridsResponse, StoreDataRequest, StoreImageRequest,
     RecordSignalTicksRequest, RecordDataBlobsRequest, AddLogAnnotationRequest}

strip_large_bytes_fields(h, a) ==
    LET message_type == h[a].type IN
    IF message_type \in get_bytes_field_allowlist
    THEN CASE message_type = GetImageResponse -> strip_get_image_response(h, a)
           [] message_type = GetLocalGridsResponse -> strip_local_grid_responses(h, a)
           [] message_type = StoreDataRequest -> strip_store_data_request(h, a)
           [] message_type = StoreImageRequest -> strip_store_image_request(h, a)
           [] message_type = RecordSignalTicksRequest -> strip_record_signal_tick(h, a)
           [] message_type = RecordDataBlobsRequest -> strip_record_data_blob(h, a)
           [] message_type = AddLogAnnotationRequest -> strip_log_annotation(h, a)
    ELSE h

\* ------------------------------------------------------- response header
\* header_pb2.ResponseHeader(): every field at its default
ResponseHeader ==
    [request_header |-> "", request_received_timestamp |-> 0,
     error |-> [code |-> CODE_UNSPECIFIED, message |-> <<>>],
     request |-> {}]

\* DESCRIPTOR.full_name
full_name(t) == <<"bosdyn.api", ".", t>>

\* Any.Pack: the type tag and the serialized message
Pack(h, a) ==
    [type_url |-> <<"type.googleapis.com", "/">> \o full_name(h[a].type),
     value |-> Serialize(h, a)]

\* An optional argument is {} (None) or {x}; "if error_msg:" is false for
\* None and for the empty string.
Truthy(opt) == \E m \in opt : m /= <<>>

\* dst.CopyFrom(src): dst is cleared, then takes every field of src
CopyFromSwapped(dst, src) == dst
CopyFrom(dst, src) == src

\* populate_response_header(response, request, error_code, error_msg) on heap
\* h, response header hdr and request object req at time t:
\* [heap |-> the heap afterwards, header |-> response.header afterwards].
\* The local copied_request is dropped on return.
populate_response_header(h, hdr, req, t, error_code, error_msg) ==
    LET header0 == ResponseHeader
        header1 == [header0 EXCEPT !.request_received_timestamp = t]
        header2 == [header1 EXCEPT !.request_header = CopyFrom(@, h[req].header)]
        header3 == [header2 EXCEPT !.error.code = error_code]
        header4 == IF Truthy(error_msg)
                   THEN [header3 EXCEPT !.error.message = CHOOSE m \in error_msg : TRUE]
                   ELSE header3
        copied_request == copy_copy(h, req)
        stripped == strip_large_bytes_fields(copied_request.h, copied_request.a)
        header5 == [header4 EXCEPT !.request = {Pack(stripped, copied_request.a)}]
    IN [heap |-> SubSeq(stripped, 1, Len(h)), header |-> CopyFrom(hdr, header5)]

\* ------------------------------------------------------- the environment
ErrorMessages == {<<>>, <<"bad", " ", "request">>}
ErrorMsgArgs == {{}} \cup {{m} : m \in ErrorMessages}
ChannelPrefixes == {{}, {<<"svc">>}}
\* an exception: its class name and str(exc_val); the traceback goes with it
Faults == {[type |-> "ValueError", val |-> <<"no", " ", "image">>, tb |-> "tb-1"],
           [type |-> "KeyError", val |-> <<>>, tb |-> "tb-2"]}
NoCall == [op |-> "none", error_code |-> CODE_UNSPECIFIED, error_msg |-> {}, raised |-> {}]

\* bosdyn.util.now_timestamp() reads the clock, which only moves forward
Tick ==
    /\ now < MaxTime
    /\ pc \in {"new", "constructed", "body"}
    /\ now' = now + 1
    /\ UNCHANGED stripVars
    /\ UNCHANGED runnerVars
    /\ UNCHANGED <<heap, request, response, header, pc, ctx, sink, cb_calls, exc,
                   entry_error, last>>

\* ------------------------------------------------------- ResponseContext
ChannelNoSeparator(prefix, t) ==
    IF prefix = {} THEN {}
    ELSE {(CHOOSE p \in prefix : TRUE) \o full_name(t)}
Channel(prefix, t) ==
    IF prefix = {} THEN {}
    ELSE {(CHOOSE p \in prefix : TRUE) \o <<"/">> \o full_name(t)}

\* rpc_logger.add_protobuf_async(proto, channel): the sink is handed the
\* message as it is at the call
add_protobuf_async(log, t, hdr, body, channel) ==
    Append(log, [type |-> t, header |-> hdr, body |-> body, channel |-> channel])

ResponseContext_init(rpc_logger, channel_prefix, exc_callback) ==
    /\ pc = "new"
    /\ header' = [header EXCEPT !.request_header = CopyFrom(@, heap[request].header)]
    /\ ctx' = [rpc_logger |-> rpc_logger, channel_prefix |-> channel_prefix,
               exc_callback |-> exc_callback]
    /\ pc' = "constructed"
    /\ last' = [NoCall EXCEPT !.op = "__init__"]
    /\ UNCHANGED stripVars
    /\ UNCHANGED runnerVars
    /\ UNCHANGED <<heap, request, response, now, sink, cb_calls, exc, entry_error>>

ResponseContext_enter ==
    /\ pc = "constructed"
    /\ header' = [header EXCEPT !.request_received_timestamp = now]
    /\ sink' = IF ctx.rpc_logger
               THEN add_protobuf_async(sink, heap[request].type, {},
                                       Serialize(heap, request),
                                       Channel(ctx.channel_prefix, heap[request].type))
               ELSE sink
    /\ pc' = "body"
    /\ last' = [NoCall EXCEPT !.op = "__enter__"]
    /\ UNCHANGED stripVars
    /\ UNCHANGED runnerVars
    /\ UNCHANGED <<heap, request, response, now, ctx, cb_calls, exc, entry_error>>

\* The body of the "with" statement works on the response __enter__ returned.
Body_set_error_code(code) ==
    /\ pc = "body"
    /\ header' = [header EXCEPT !.error.code = code]
    /\ last' = [NoCall EXCEPT !.op = "set"]
    /\ UNCHANGED stripVars
    /\ UNCHANGED runnerVars
    /\ UNCHANGED <<heap, request, response, now, pc, ctx, sink, cb_calls, exc,
                   entry_error>>

Body_set_error_message(msg) ==
    /\ pc = "body"
    /\ header' = [header EXCEPT !.error.message = msg]
    /\ last' = [NoCall EXCEPT !.op = "set"]
    /\ UNCHANGED stripVars
    /\ UNCHANGED runnerVars
    /\ UNCHANGED <<heap, request, response, now, pc, ctx, sink, cb_calls, exc,
                   entry_error>>

Populate(error_code, error_msg) ==
    /\ pc \in {"body", "call"}
    /\ LET r == populate_response_header(heap, header, request, now, error_code, error_msg)
       IN /\ heap' = r.heap
          /\ header' = r.header
    /\ pc' = IF pc = "call" THEN "populated" ELSE pc
    /\ last' = [NoCall EXCEPT !.op = "populate", !.error_code = error_code,
                              !.error_msg = error_msg]
    /\ UNCHANGED stripVars
    /\ UNCHANGED runnerVars
    /\ UNCHANGED <<request, response, now, ctx, sink, cb_calls, exc, entry_error>>

\* "[%s] %s" % (exc_type.__name__, exc_val)
FormatFault(f) == <<"[", f.type, "] ">> \o f.val

\* __exit__, first statement: an unset code becomes OK
default_ok_missing(hdr) == hdr
default_ok_inverted(hdr) ==
    IF hdr.error.code /= CODE_UNSPECIFIED
    THEN [hdr EXCEPT !.error.code = CODE_OK]
    ELSE hdr
default_ok_always(hdr) == [hdr EXCEPT !.error.code = CODE_OK]
default_ok(hdr) ==
    IF hdr.error.code = CODE_UNSPECIFIED
    THEN [hdr EXCEPT !.error.code = CODE_OK]
    ELSE hdr

\* __exit__, "if exc_type is not None": the header of an uncaught exception
fault_override_unless_set(hdr, raised) ==
    IF raised /= {} /\ hdr.error.code = CODE_OK
    THEN [hdr EXCEPT !.error.code = CODE_INTERNAL_SERVER_ERROR,
                     !.error.message = FormatFault(CHOOSE f \in raised : TRUE)]
    ELSE hdr
fault_override(hdr, raised) ==
    IF raised /= {}
    THEN [hdr EXCEPT !.error.code = CODE_INTERNAL_SERVER_ERROR,
                     !.error.message = FormatFault(CHOOSE f \in raised : TRUE)]
    ELSE hdr

\* __exit__, "if self.exc_callback:" inside the exception branch
exc_callback_always(calls, exc_callback, raised) ==
    IF exc_callback
    THEN Append(calls, IF raised = {} THEN <<"None", <<>>, "None">>
                       ELSE LET f == CHOOSE x \in raised : TRUE
                            IN <<f.type, f.val, f.tb>>)
    ELSE calls
call_exc_callback(calls, exc_callback, raised) ==
    IF raised /= {} /\ exc_callback
    THEN LET f == CHOOSE x \in raised : TRUE
         IN Append(calls, <<f.type, f.val, f.tb>>)
    ELSE calls

\* __exit__, last statement: self.response is logged as it is by then, the
\* header statements above having run (at_entry is the header __exit__ found)
response_at_entry(at_entry, finalized) == at_entry
response_at_log(at_entry, finalized) == finalized

\* __exit__ has no return statement: it returns None, which never suppresses
\* the exception of the body
exit_swallows(raised) == raised /= {}
exit_return_value(raised) == FALSE

\* __exit__(exc_type, exc_val, exc_tb): raised is {} when the body completed
\* and {f} when it raised f.  The fault goes on to the caller once __exit__
\* has returned.
ResponseContext_exit(raised) ==
    /\ pc = "body"
    /\ LET finalized == fault_override(default_ok(header), raised)
           logged == response_at_log(header, finalized)
       IN /\ header' = finalized
          /\ cb_calls' = call_exc_callback(cb_calls, ctx.exc_callback, raised)
          /\ sink' = IF ctx.rpc_logger
                     THEN add_protobuf_async(sink, heap[response].type, {logged},
                                             Serialize(heap, response),
                                             Channel(ctx.channel_prefix, heap[response].type))
                     ELSE sink
    /\ entry_error' = {header.error}
    /\ exc' = IF exit_return_value(raised) THEN {} ELSE raised
    /\ pc' = IF raised = {} \/ exit_return_value(raised) THEN "returned" ELSE "propagated"
    /\ last' = [NoCall EXCEPT !.op = "__exit__", !.raised = raised]
    /\ UNCHANGED stripVars
    /\ UNCHANGED runnerVars
    /\ UNCHANGED <<heap, request, response, now, ctx>>

\* ------------------------------------------------------- specifications
NoContext == [rpc_logger |-> FALSE, channel_prefix |-> {}, exc_callback |-> FALSE]

LoadedBytes == {[i \in 1..MaxBytes |-> "b"]}

InitObjects(reqs, resps) ==
    \E rq \in reqs, rs \in resps :
        LET one == Parse(<<>>, rq)
            two == Parse(one.h, rs)
        IN /\ heap = two.h
           /\ request = one.a
           /\ response = two.a

InitRest ==
    /\ now = 1
    /\ ctx = NoContext
    /\ sink = <<>>
    /\ cb_calls = <<>>
    /\ exc = {}
    /\ entry_error = {}
    /\ last = NoCall

\* strip_large_bytes_fields is not being called on its own
NoStrip ==
    /\ proto_message = 0
    /\ original = {}

\* GrpcServiceRunner.__init__ has returned: the server is started, no call
\* has come in yet
NoFrame == [caller |-> "none", fault |-> FALSE, bound |-> "none", resume |-> "none"]
RunnerStarted ==
    /\ stage = "STARTED"
    /\ rpcs = [c \in 1..MaxCalls |-> "none"]
    /\ server_log = <<>>
    /\ main = "ready"
    /\ frame = NoFrame
    /\ stop_calls = <<>>
    /\ interrupted = FALSE
    /\ waited = 0

\* One RPC: the servicer holds the request and a new response.
Init ==
    /\ InitObjects(UNION {MessagesOfType(t, {"client-a"}, LoadedBytes, {MaxItems}) :
                            t \in {StoreImageRequest, RecordDataBlobsRequest,
                                   GetImageRequest}},
                   UNION {MessagesOfType(t, {""}, LoadedBytes, {MaxItems}) :
                            t \in {GetImageResponse, RobotCommandResponse}})
    /\ header = ResponseHeader
    /\ pc = "new"
    /\ InitRest
    /\ NoStrip
    /\ RunnerStarted

Next ==
    \/ \E l \in BOOLEAN, p \in ChannelPrefixes, c \in BOOLEAN : ResponseContext_init(l, p, c)
    \/ ResponseContext_enter
    \/ \E code \in Codes : Body_set_error_code(code)
    \/ \E msg \in ErrorMessages : Body_set_error_message(msg)
    \/ \E code \in Codes, msg \in ErrorMsgArgs : Populate(code, msg)
    \/ \E raised \in {{}} \cup {{f} : f \in Faults} : ResponseContext_exit(raised)
    \/ Tick

Spec == Init /\ [][Next]_vars

\* populate_response_header on its own: any request, any response header
PriorHeaders ==
    {[request_header |-> rh, request_received_timestamp |-> 0,
      error |-> [code |-> c, message |-> m], request |-> {}] :
        rh \in {""} \cup RequestHeaders, c \in Codes, m \in ErrorMessages}

InitPopulate ==
    /\ InitObjects(UNION {MessagesOfType(t, RequestHeaders, BytesValues, 0..MaxItems) :
                            t \in RequestTypes},
                   MessagesOfType(RobotCommandResponse, {""}, LoadedBytes, {MaxItems}))
    /\ header \in PriorHeaders
    /\ pc = "call"
    /\ InitRest
    /\ NoStrip
    /\ RunnerStarted

NextPopulate ==
    \E code \in Codes, msg \in ErrorMsgArgs : Populate(code, msg)

SpecPopulate == InitPopulate /\ [][NextPopulate]_vars

\* strip_large_bytes_fields on its own, on any message, up to twice
AllTypes == get_bytes_field_allowlist \cup {GetImageRequest, RobotCommandResponse}

StripCall ==
    /\ pc \in {"strip0", "strip1"}
    /\ heap' = strip_large_bytes_fields(heap, proto_message)
    /\ original' = IF pc = "strip0" THEN {Serialize(heap, proto_message)} ELSE original
    /\ pc' = IF pc = "strip0" THEN "strip1" ELSE "strip2"
    /\ last' = [NoCall EXCEPT !.op = "strip"]
    /\ UNCHANGED <<request, response, header, now, ctx, sink, cb_calls, exc,
                   entry_error, proto_message>>
    /\ UNCHANGED runnerVars

InitStrip ==
    /\ \E m \in UNION {MessagesOfType(t, {"client-a"}, BytesValues, 0..MaxItems) :
                          t \in AllTypes} :
          LET one == Parse(<<>>, m)
          IN /\ heap = one.h
             /\ proto_message = one.a
    /\ original = {}
    /\ request = 0
    /\ response = 0
    /\ header = ResponseHeader
    /\ pc = "strip0"
    /\ InitRest
    /\ RunnerStarted

NextStrip == StripCall

SpecStrip == InitStrip /\ [][NextStrip]_vars

\* ----------------------------------------------------- GrpcServiceRunner
\* The grpc server behind self.server.  A call is "none" (not received),
\* "running" (its handler executes), "aborted" (the RPC was cancelled, the
\* handler still executes), "completed" (the handler returned and the RPC
\* ended normally) or "terminated" (the handler of an aborted RPC returned).
Handling(rp) == {c \in DOMAIN rp : rp[c] \in {"running", "aborted"}}

\* a client's call reaches the server, which takes calls while it is started
RpcArrive(c) ==
    /\ stage = "STARTED"
    /\ rpcs[c] = "none"
    /\ rpcs' = [rpcs EXCEPT ![c] = "running"]
    /\ UNCHANGED <<stage, server_log, main, frame, stop_calls, interrupted, waited>>
    /\ UNCHANGED scopeVars
    /\ UNCHANGED stripVars

\* the handler of call c returns
RpcFinish(c) ==
    /\ rpcs[c] \in {"running", "aborted"}
    /\ rpcs' = [rpcs EXCEPT ![c] = IF rpcs[c] = "running" THEN "completed" ELSE "terminated"]
    /\ UNCHANGED <<stage, server_log, main, frame, stop_calls, interrupted, waited>>
    /\ UNCHANGED scopeVars
    /\ UNCHANGED stripVars

\* the server has completely stopped once shutdown has begun and the last
\* handler has terminated; the events stop() returned are set then
ServerStopped ==
    /\ stage = "GRACE"
    /\ Handling(rpcs) = {}
    /\ stage' = "STOPPED"
    /\ UNCHANGED <<rpcs, server_log, main, frame, stop_calls, interrupted, waited>>
    /\ UNCHANGED scopeVars
    /\ UNCHANGED stripVars

\* self.server.stop(None), up to the point where it blocks: on a stopped
\* server it does nothing; otherwise shutdown begins (once) and, the grace
\* being None, all existing RPCs are aborted immediately.  The call then
\* blocks until the server has completely stopped and returns an event that
\* is already set.
server_stop_always(st, rp, log) ==
    [stage |-> IF st = "STOPPED" THEN "STOPPED" ELSE "GRACE",
     rpcs |-> [c \in DOMAIN rp |-> IF rp[c] = "running" THEN "aborted" ELSE rp[c]],
     log |-> log \o <<"cancel_all_calls">>]
server_stop(st, rp, log) ==
    IF st = "STOPPED"
    THEN [stage |-> st, rpcs |-> rp, log |-> log]
    ELSE [stage |-> "GRACE",
          rpcs |-> [c \in DOMAIN rp |-> IF rp[c] = "running" THEN "aborted" ELSE rp[c]],
          log |-> (IF st = "STARTED" THEN log \o <<"shutdown">> ELSE log)
                     \o <<"cancel_all_calls">>]

\* stop(), entered by caller: the thread is now inside self.server.stop(None)
\* and goes on at resume when stop() has returned
StopBegin(caller, fault, resume) ==
    /\ LET r == server_stop(stage, rpcs, server_log)
       IN /\ stage' = r.stage
          /\ rpcs' = r.rpcs
          /\ server_log' = r.log
    /\ stop_calls' = Append(stop_calls, caller)
    /\ frame' = [frame EXCEPT !.caller = caller, !.fault = fault, !.resume = resume]
    /\ main' = "in_server_stop"
    /\ waited' = 0
    /\ UNCHANGED interrupted
    /\ UNCHANGED scopeVars
    /\ UNCHANGED stripVars


\* stop(), second half: server.stop(None) returns once the server has
\* stopped; shutdown_complete is set by then, so wait(timeout_secs) returns
\* at once and stop() returns
StopReturn ==
    /\ main = "in_server_stop"
    /\ stage = "STOPPED"
    /\ main' = frame.resume
    /\ UNCHANGED <<stage, rpcs, server_log, frame, stop_calls, interrupted, waited>>
    /\ UNCHANGED scopeVars
    /\ UNCHANGED stripVars

\* time passes while the thread is kept inside stop()
StopTick ==
    /\ main = "in_server_stop"
    /\ stage /= "STOPPED"
    /\ waited <= timeout_secs
    /\ waited' = waited + 1
    /\ UNCHANGED <<stage, rpcs, server_log, main, frame, stop_calls, interrupted>>
    /\ UNCHANGED scopeVars
    /\ UNCHANGED stripVars

\* runner.stop() called by the owner of the runner
GrpcServiceRunner_stop ==
    /\ main \in {"ready", "left_with", "returned"}
    /\ Len(stop_calls) < MaxStops
    /\ StopBegin("direct", FALSE, main)

\* __enter__: returns self
enter_return_value == "self"
GrpcServiceRunner_enter ==
    /\ main = "ready"
    /\ main' = "in_with"
    /\ frame' = [frame EXCEPT !.bound = enter_return_value]
    /\ UNCHANGED <<stage, rpcs, server_log, stop_calls, interrupted, waited>>
    /\ UNCHANGED scopeVars
    /\ UNCHANGED stripVars

\* __exit__(exc_type, exc_val, exc_tb): self.stop(), whatever the arguments
\* __exit__ returns None: a fault of the with body propagates
after_exit(fault) == IF fault THEN "raised" ELSE "left_with"
exit_stops_unless_fault(fault) == ~fault
exit_calls_stop(fault) == TRUE
GrpcServiceRunner_exit(fault) ==
    /\ main = "in_with"
    /\ IF exit_calls_stop(fault)
       THEN StopBegin("with", fault, after_exit(fault))
       ELSE /\ main' = after_exit(fault)
            /\ frame' = [frame EXCEPT !.caller = "with", !.fault = fault]
            /\ UNCHANGED <<stage, rpcs, server_log, stop_calls, interrupted, waited>>
            /\ UNCHANGED scopeVars
            /\ UNCHANGED stripVars

\* run_until_interrupt, up to its loop: "while True: time.sleep(1)"
run_until_interrupt ==
    /\ main = "ready"
    /\ main' = "spinning"
    /\ UNCHANGED <<stage, rpcs, server_log, frame, stop_calls, interrupted, waited>>
    /\ UNCHANGED scopeVars
    /\ UNCHANGED stripVars

\* a SIGINT arrives while the thread sleeps in the loop
Interrupt ==
    /\ main = "spinning"
    /\ ~interrupted
    /\ interrupted' = TRUE
    /\ UNCHANGED <<stage, rpcs, server_log, main, frame, stop_calls, waited>>
    /\ UNCHANGED scopeVars
    /\ UNCHANGED stripVars

\* run_until_interrupt, after the loop: KeyboardInterrupt is caught, then
\* self.stop()
loop_ends(sigint) == sigint
run_until_interrupt_stop ==
    /\ main = "spinning"
    /\ loop_ends(interrupted)
    /\ StopBegin("interrupt", FALSE, "returned")

InitRunner ==
    /\ heap = <<>>
    /\ request = 0
    /\ response = 0
    /\ header = ResponseHeader
    /\ pc = "none"
    /\ InitRest
    /\ NoStrip
    /\ RunnerStarted

MainNext ==
    \/ GrpcServiceRunner_stop
    \/ GrpcServiceRunner_enter
    \/ \E fault \in BOOLEAN : GrpcServiceRunner_exit(fault)
    \/ run_until_interrupt
    \/ run_until_interrupt_stop
    \/ StopReturn

NextRunner ==
    \/ \E c \in 1..MaxCalls : RpcArrive(c)
    \/ \E c \in 1..MaxCalls : RpcFinish(c)
    \/ ServerStopped
    \/ MainNext
    \/ Interrupt
    \/ StopTick

SpecRunner == InitRunner /\ [][NextRunner]_vars

\* The threads are scheduled: the runner's thread and the server's own
\* thread take their next step when they can.  Nothing makes a handler
\* return.
SpecRunnerFair ==
    /\ InitRunner
    /\ [][NextRunner]_vars
    /\ WF_vars(MainNext)
    /\ WF_vars(ServerStopped)

\* ------------------------------------------------------------ properties
Exited == last.op = "__exit__"
ErrorAtEntry == CHOOSE e \in entry_error : TRUE
\* the responses the telemetry sink was handed
LoggedHeaders == UNION {sink[i].header : i \in DOMAIN sink}
LastLogged == sink[Len(sink)]
IsInfix(part, whole) ==
    \E i \in 0..(Len(whole) - Len(part)) : SubSeq(whole, i + 1, i + Len(part)) = part

\* C1: once a scope has exited, normally or by a fault, the response's error
\* code is not UNSPECIFIED: it is OK, the code the header held when the body
\* ended, or INTERNAL_SERVER_ERROR; and no response handed to the telemetry
\* sink carries UNSPECIFIED.
C1_CodeNeverLeftUnset ==
    /\ Exited =>
         /\ header.error.code /= CODE_UNSPECIFIED
         /\ header.error.code \in
               {CODE_OK, CODE_INTERNAL_SERVER_ERROR, ErrorAtEntry.code}
    /\ \A h \in LoggedHeaders : h.error.code /= CODE_UNSPECIFIED

\* a scope whose body called populate_response_header and left the code
\* UNSPECIFIED has exited with a sink attached
C1_Witness ==
    /\ Exited
    /\ header.request /= {}
    /\ ErrorAtEntry.code = CODE_UNSPECIFIED
    /\ LoggedHeaders /= {}

\* C2: when the body raised, after exit the code is INTERNAL_SERVER_ERROR
\* whatever the header held before, and the message is non-empty, names the
\* exception's type and ends with its description.
C2_FaultSetsInternalError ==
    (Exited /\ last.raised /= {}) =>
        LET f == CHOOSE x \in last.raised : TRUE IN
        /\ header.error.code = CODE_INTERNAL_SERVER_ERROR
        /\ header.error.message /= <<>>
        /\ IsInfix(<<f.type>>, header.error.message)
        /\ SubSeq(header.error.message,
                  Len(header.error.message) - Len(f.val) + 1,
                  Len(header.error.message)) = f.val

\* the body had set an application code and a message, then raised
C2_Witness ==
    /\ Exited
    /\ last.raised /= {}
    /\ ErrorAtEntry.code = CODE_INVALID_REQUEST
    /\ ErrorAtEntry.message /= <<>>
    /\ header.error.code = CODE_INTERNAL_SERVER_ERROR

C4_SuccessDefaultsToOk ==
    (Exited /\ last.raised = {} /\ ErrorAtEntry.code = CODE_UNSPECIFIED) =>
        header.error.code = CODE_OK

C4_Witness ==
    /\ pc = "returned"
    /\ ErrorAtEntry.code = CODE_UNSPECIFIED
    /\ header.error.code = CODE_OK

\* C5: without a fault, a code other than UNSPECIFIED and the message that
\* the body left in the header are the same after exit.
C5_ApplicationErrorPreserved ==
    (Exited /\ last.raised = {} /\ ErrorAtEntry.code /= CODE_UNSPECIFIED) =>
        header.error = ErrorAtEntry

C5_Witness ==
    /\ pc = "returned"
    /\ ErrorAtEntry.code = CODE_INVALID_REQUEST
    /\ header.error.code = CODE_INVALID_REQUEST
    /\ header.error.message /= <<>>

\* C6: with a callback configured it is called exactly once, with the
\* fault's type, value and traceback, when the body raised, and not at all
\* when the body completed.
C6_CallbackCount ==
    /\ ~Exited => cb_calls = <<>>
    /\ (Exited /\ last.raised = {}) => cb_calls = <<>>
    /\ (Exited /\ last.raised /= {} /\ ctx.exc_callback) =>
          LET f == CHOOSE x \in last.raised : TRUE
          IN cb_calls = << <<f.type, f.val, f.tb>> >>

C6_Witness ==
    /\ ctx.exc_callback
    /\ pc = "propagated"
    /\ Len(cb_calls) = 1

\* C7: with a sink configured, the response handed to the sink at exit
\* carries the error code and message the response ends with.
C7_LoggedResponseIsFinal ==
    (Exited /\ ctx.rpc_logger) =>
        /\ sink /= <<>>
        /\ \E h \in LastLogged.header : h.error = header.error

\* exit changed the code (UNSPECIFIED at entry) before logging
C7_Witness ==
    /\ Exited
    /\ ctx.rpc_logger
    /\ ErrorAtEntry.code = CODE_UNSPECIFIED
    /\ \E h \in LastLogged.header : h.error.code = CODE_OK

\* the bytes fields the allowlist designates, read off a message value
DesignatedBytes(v) ==
    CASE v.type = GetImageResponse ->
           {v.items[i].child[1].child[1].data : i \in DOMAIN v.items}
      [] v.type = GetLocalGridsResponse ->
           {v.items[i].child[1].data : i \in DOMAIN v.items}
      [] v.type = StoreDataRequest -> {v.data}
      [] v.type = StoreImageRequest ->
           IF v.child = <<>> THEN {} ELSE {v.child[1].child[1].data}
      [] v.type \in {RecordSignalTicksRequest, RecordDataBlobsRequest} ->
           {v.items[i].data : i \in DOMAIN v.items}
      [] v.type = AddLogAnnotationRequest ->
           {v.child[1].items[i].data : i \in DOMAIN v.child[1].items}
      [] OTHER -> {}
Populated == last.op = "populate"
Embedded == CHOOSE any \in header.request : TRUE
RequestValue == Serialize(heap, request)

\* C8: after populate_response_header(resp, R, C) with C other than
\* UNSPECIFIED, resp.header.error.code is C and resp.header.request_header
\* is R.header, whatever resp.header held before.
C8_PopulateSetsCodeAndRequestHeader ==
    (Populated /\ last.error_code /= CODE_UNSPECIFIED) =>
        /\ header.error.code = last.error_code
        /\ header.request_header = heap[request].header

C8_Witness ==
    /\ pc = "populated"
    /\ last.error_code = CODE_INVALID_REQUEST
    /\ header.error.code = CODE_INVALID_REQUEST
    /\ header.request_header = "client-b"

\* C9: populate_response_header leaves the request as it was, bytes fields
\* in sub-messages and repeated sub-messages included.
C9_RequestNotMutated ==
    [][last'.op = "populate" => Serialize(heap', request') = Serialize(heap, request)]_vars

\* an AddLogAnnotationRequest whose blobs still hold their bytes after the
\* call, while the copy in the header holds none
C9_Witness ==
    /\ pc = "populated"
    /\ RequestValue.type = AddLogAnnotationRequest
    /\ Len(RequestValue.child[1].items) = MaxItems
    /\ NoBytes \notin DesignatedBytes(RequestValue)
    /\ DesignatedBytes(Embedded.value) = {NoBytes}

\* C10: the copy of the request embedded in header.request has every
\* designated bytes field empty when the request's type is allowlisted, and
\* equals the request when it is not.
C10_EmbeddedCopyStripped ==
    Populated =>
        /\ Cardinality(header.request) = 1
        /\ Embedded.type_url = <<"type.googleapis.com", "/">> \o full_name(RequestValue.type)
        /\ Embedded.value.type = RequestValue.type
        /\ RequestValue.type \in get_bytes_field_allowlist =>
             DesignatedBytes(Embedded.value) \subseteq {NoBytes}
        /\ RequestValue.type \notin get_bytes_field_allowlist =>
             Embedded.value = RequestValue

C10_Witness ==
    /\ pc = "populated"
    /\ RequestValue.type = RecordSignalTicksRequest
    /\ Len(RequestValue.items) = MaxItems
    /\ NoBytes \notin DesignatedBytes(RequestValue)
    /\ DesignatedBytes(Embedded.value) = {NoBytes}

\* C11: the response handed to the telemetry sink at exit is a sanitized
\* copy: for a response of an allowlisted type its designated bytes fields
\* are empty in what the sink receives, while the live response keeps them.
C11_LoggedResponseSanitized ==
    (Exited /\ ctx.rpc_logger /\ heap[response].type \in get_bytes_field_allowlist) =>
        /\ DesignatedBytes(LastLogged.body) \subseteq {NoBytes}
        /\ NoBytes \notin DesignatedBytes(Serialize(heap, response))

\* C19: with a sink configured a scope submits the request at entry and the
\* response at exit, in that order and nothing else, each under the channel
\* prefix + "/" + full type name, or under no channel without a prefix;
\* without a sink nothing is submitted.
ExpectedChannel(t) ==
    IF ctx.channel_prefix = {} THEN {}
    ELSE {(CHOOSE p \in ctx.channel_prefix : TRUE) \o <<"/", "bosdyn.api", ".", t>>}
Stripped == pc \in {"strip1", "strip2"}
Original == CHOOSE v \in original : TRUE
MessageValue == Serialize(heap, proto_message)
\* the repeated field that carries the bytes, for the types that have one
RepeatedTypes == {GetImageResponse, GetLocalGridsResponse, RecordSignalTicksRequest,
                  RecordDataBlobsRequest, AddLogAnnotationRequest}
RepeatedField(v) == IF v.type = AddLogAnnotationRequest THEN v.child[1].items ELSE v.items

\* a message value with its designated bytes fields emptied, field by field
EraseLeaf(v) == [v EXCEPT !.data = NoBytes]
EraseChild(v) == [v EXCEPT !.child = <<EraseLeaf(v.child[1])>>]
Erase(v) ==
    CASE v.type = GetImageResponse ->
           [v EXCEPT !.items = [i \in DOMAIN v.items |->
               [v.items[i] EXCEPT !.child = <<EraseChild(v.items[i].child[1])>>]]]
      [] v.type = GetLocalGridsResponse ->
           [v EXCEPT !.items = [i \in DOMAIN v.items |-> EraseChild(v.items[i])]]
      [] v.type = StoreDataRequest -> EraseLeaf(v)
      [] v.type = StoreImageRequest ->
           IF v.child = <<>> THEN v ELSE [v EXCEPT !.child = <<EraseChild(v.child[1])>>]
      [] v.type \in {RecordSignalTicksRequest, RecordDataBlobsRequest} ->
           [v EXCEPT !.items = [i \in DOMAIN v.items |-> EraseLeaf(v.items[i])]]
      [] v.type = AddLogAnnotationRequest ->
           [v EXCEPT !.child = <<[v.child[1] EXCEPT !.items =
               [i \in DOMAIN v.child[1].items |-> EraseLeaf(v.child[1].items[i])]]>>]
      [] OTHER -> v

\* C12: stripping is idempotent: a second strip_large_bytes_fields on the
\* same message changes nothing.
C12_StripIdempotent ==
    [][(pc = "strip1" /\ pc' = "strip2") =>
         Serialize(heap', proto_message') = Serialize(heap, proto_message)]_vars

\* a RecordDataBlobsRequest whose blobs all held bytes, stripped twice
C12_Witness ==
    /\ pc = "strip2"
    /\ Original.type = RecordDataBlobsRequest
    /\ Len(Original.items) = MaxItems
    /\ NoBytes \notin DesignatedBytes(Original)
    /\ DesignatedBytes(MessageValue) = {NoBytes}

\* C13: for a type whose bytes field sits in a repeated field of length N,
\* stripping leaves N elements, all of them with empty data, for every N.
C13_RepeatedAllCleared ==
    (Stripped /\ Original.type \in RepeatedTypes) =>
        /\ Len(RepeatedField(MessageValue)) = Len(RepeatedField(Original))
        /\ DesignatedBytes(MessageValue) \subseteq {NoBytes}
        /\ Cardinality(DesignatedBytes(MessageValue)) =
              (IF Len(RepeatedField(Original)) = 0 THEN 0 ELSE 1)

C13_Witness ==
    /\ pc = "strip1"
    /\ Original.type = GetImageResponse
    /\ Len(Original.items) = MaxItems
    /\ NoBytes \notin DesignatedBytes(Original)
    /\ Len(MessageValue.items) = MaxItems
    /\ DesignatedBytes(MessageValue) = {NoBytes}

InStop == main = "in_server_stop"
StopsBy(caller) == {i \in 1..Len(stop_calls) : stop_calls[i] = caller}

\* C14: stop always returns, at the latest when the configured deadline
\* timeout_secs expires, even if an in-flight call never completes: the
\* thread is never still inside stop() after more than timeout_secs.
C14_StopReturnsByDeadline ==
    InStop => waited <= timeout_secs

\* C15: a call that is in flight when stop is invoked is not cancelled by
\* stop: no call is ever aborted, a handler that was running when stop
\* began completes normally.
C15_InFlightNotCancelled ==
    \A c \in 1..MaxCalls : rpcs[c] \notin {"aborted", "terminated"}

\* C16: after a first stop has completed every further stop is a no-op: it
\* finds the server STOPPED, does not wait, triggers no further action on
\* the server and leaves it STOPPED; the server never goes back from
\* STOPPING (GRACE) or STOPPED to RUNNING (STARTED).
C16_StopIdempotent ==
    [][/\ stage = "STOPPED" =>
            /\ stage' = "STOPPED"
            /\ server_log' = server_log
            /\ rpcs' = rpcs
       /\ stage /= "STARTED" => stage' /= "STARTED"
       /\ Len(stop_calls') >= 2 =>
            /\ stage' = "STOPPED"
            /\ waited' = 0]_vars
C16_Witness ==
    /\ Len(stop_calls) = 2
    /\ ~InStop
    /\ stage = "STOPPED"
    /\ server_log = <<"shutdown", "cancel_all_calls">>

RunUntilInterruptSafety ==
    /\ (main = "spinning" /\ ~interrupted) =>
          /\ StopsBy("interrupt") = {}
          /\ stop_calls = <<>> => stage = "STARTED"
    /\ StopsBy("interrupt") /= {} => interrupted
    /\ Cardinality(StopsBy("interrupt")) <= 1
    /\ main = "returned" => Cardinality(StopsBy("interrupt")) = 1

\* C18: run_until_interrupt neither returns nor stops before an interrupt;
\* once an interrupt is observed it calls stop once and then returns: an
\* interrupt always leads to run_until_interrupt having returned with the
\* server stopped.
C18_InterruptLeadsToStopped ==
    interrupted ~> (main = "returned" /\ stage = "STOPPED")

====
